---------------------------- MODULE Spec2Model ----------------------------
(***************************************************************************)
(* rusthello: an Othello board (Board), the status derived from a board    *)
(* (GameStatus), the game workflow (Game) and the fixed-depth search       *)
(* (Minimax, Evaluator).                                                   *)
(*                                                                         *)
(* Two specifications:                                                     *)
(*   Spec       the Game object: Game::new() followed by Game.play calls   *)
(*   SpecBoard  a Board value held by a caller of Board.play,              *)
(*              GameStatus::evaluate_board and Minimax.compute_move        *)
(***************************************************************************)
EXTENDS Integers, Sequences, FiniteSets

VARIABLES
    board,      \* Game.board
    player,     \* Game.player : "Black", "White" or "None"
    status,     \* Game.status
    position,   \* a Board value owned by a caller of the Board API
    call,       \* the last call made and what it returned
    moves       \* number of Board.play results the caller has adopted

vars == <<board, player, status, position, call, moves>>

----------------------------------------------------------------------------
(* Bounds of the model.                                                    *)

\* the caller of the Board API replaces its board by a play result at most
\* this many times
MaxMoves == 1

\* the depths Minimax::new is given are 1..MaxDepth
MaxDepth == 2

\* Minimax.compute_move is called on boards obtained by at most this many
\* adopted plays
MaxSearchMoves == 0

----------------------------------------------------------------------------
(* Player, Board.                                                          *)

\* side of the board: cells: [[Option<Player>; 8]; 8]
Size == 8

Coord == 0 .. (Size - 1)

Players == {"Black", "White"}

opponent(p) == IF p = "Black" THEN "White" ELSE "Black"

Board_new == [x \in Coord |-> [y \in Coord |-> "None"]]

check_coordinates(x, y) == ~(x > 7 \/ y > 7)

\* set_piece on in-range coordinates (every use in the sources unwraps it);
\* out of range the board is left as it is
set_piece(cells, x, y, piece) ==
    IF check_coordinates(x, y) THEN [cells EXCEPT ![x][y] = piece] ELSE cells

Board_new_start ==
    LET b1 == set_piece(Board_new, 3, 3, "White")
        b2 == set_piece(b1, 4, 4, "White")
        b3 == set_piece(b2, 3, 4, "Black")
    IN  set_piece(b3, 4, 3, "Black")

ALL_DIRECTIONS ==
    << <<0, -1>>, <<1, -1>>, <<1, 0>>, <<1, 1>>,
       <<0, 1>>, <<-1, 1>>, <<-1, 0>>, <<-1, -1>> >>

\* CellsNavigation::next : the position after pos in direction dir, or
\* "None" past the limit of the board (current_position then stays at pos)
NoPos == <<-1, -1>>

CellsNavigation_next(pos, dir) ==
    LET x == pos[1] + dir[1]
        y == pos[2] + dir[2]
    IN  IF x < 0 \/ x > 7 \/ y < 0 \/ y > 7 THEN NoPos ELSE <<x, y>>

CellsNavigation_reverse(dir) == <<0 - dir[1], 0 - dir[2]>>

\* forward with can_capture set on reaching an own piece whether or not an
\* opponent piece was passed
RECURSIVE forward_without_found(_, _, _, _, _)
forward_without_found(cells, other_player, pos, dir, found_other_on_path) ==
    LET nxt == CellsNavigation_next(pos, dir) IN
    IF nxt = NoPos
    THEN [can_capture |-> FALSE, current_position |-> pos]
    ELSE LET piece == cells[nxt[1]][nxt[2]] IN
         IF piece = "None"
         THEN [can_capture |-> FALSE, current_position |-> nxt]
         ELSE IF piece = other_player
              THEN forward_without_found(cells, other_player, nxt, dir, TRUE)
              ELSE [can_capture |-> TRUE, current_position |-> nxt]

\* The forward loop of Board::play over one direction (lines 98-114):
\* the navigator's position when the loop ends, and can_capture.
RECURSIVE forward(_, _, _, _, _)
forward(cells, other_player, pos, dir, found_other_on_path) ==
    LET nxt == CellsNavigation_next(pos, dir) IN
    IF nxt = NoPos
    THEN [can_capture |-> FALSE, current_position |-> pos]
    ELSE LET piece == cells[nxt[1]][nxt[2]] IN
         IF piece = "None"
         THEN [can_capture |-> FALSE, current_position |-> nxt]
         ELSE IF piece = other_player
              THEN forward(cells, other_player, nxt, dir, TRUE)
              ELSE [can_capture |-> found_other_on_path,
                    current_position |-> nxt]

\* backward ending one cell early: the piece next to the move position is
\* not captured
RECURSIVE backward_one_short(_, _, _, _, _)
backward_one_short(new_cells, p, pos, dir, origin) ==
    LET nxt == CellsNavigation_next(pos, dir) IN
    IF nxt = NoPos \/ nxt = origin \/ CellsNavigation_next(nxt, dir) = origin
    THEN new_cells
    ELSE backward_one_short([new_cells EXCEPT ![nxt[1]][nxt[2]] = p],
                            p, nxt, dir, origin)

\* The backward loop of Board::play (lines 123-130): from the navigator's
\* position back to the move position, which ends it.
RECURSIVE backward(_, _, _, _, _)
backward(new_cells, p, pos, dir, origin) ==
    LET nxt == CellsNavigation_next(pos, dir) IN
    IF nxt = NoPos \/ nxt = origin
    THEN new_cells
    ELSE backward([new_cells EXCEPT ![nxt[1]][nxt[2]] = p], p, nxt, dir, origin)

\* The loop over ALL_DIRECTIONS from direction number i on (lines 96-131):
\* new_board and valid_move when it ends.
RECURSIVE explore(_, _, _, _, _, _, _)
explore(cells, p, x, y, i, new_cells, valid_move) ==
    IF i > Len(ALL_DIRECTIONS)
    THEN [new_board |-> new_cells, valid_move |-> valid_move]
    ELSE LET direction == ALL_DIRECTIONS[i]
             f == forward(cells, opponent(p), <<x, y>>, direction, FALSE)
         IN  IF ~f.can_capture
             THEN explore(cells, p, x, y, i + 1, new_cells, valid_move)
             ELSE explore(cells, p, x, y, i + 1,
                          backward(new_cells, p, f.current_position,
                                   CellsNavigation_reverse(direction), <<x, y>>),
                          TRUE)

\* play writing the captures into the receiver instead of a clone of it
play_in_place(cells, p, x, y) ==
    IF ~check_coordinates(x, y)
    THEN [self |-> cells, ret |-> [tag |-> "Err"]]
    ELSE IF cells[x][y] # "None"
    THEN [self |-> cells, ret |-> [tag |-> "None"]]
    ELSE LET e == explore(cells, p, x, y, 1, cells, FALSE) IN
         IF e.valid_move
         THEN [self |-> [e.new_board EXCEPT ![x][y] = p],
               ret |-> [tag |-> "Some",
                        board |-> [e.new_board EXCEPT ![x][y] = p]]]
         ELSE [self |-> cells, ret |-> [tag |-> "None"]]

\* Board::play : what it returns (ret) and the receiver after the call
\* (self).  Every write goes to new_board, a clone of the receiver.
play(cells, p, x, y) ==
    IF ~check_coordinates(x, y)
    THEN [self |-> cells, ret |-> [tag |-> "Err"]]
    ELSE IF cells[x][y] # "None"
    THEN [self |-> cells, ret |-> [tag |-> "None"]]
    ELSE LET e == explore(cells, p, x, y, 1, cells, FALSE) IN
         IF e.valid_move
         THEN [self |-> cells,
               ret |-> [tag |-> "Some",
                        board |-> [e.new_board EXCEPT ![x][y] = p]]]
         ELSE [self |-> cells, ret |-> [tag |-> "None"]]

is_some(cells, p, x, y) == play(cells, p, x, y).ret.tag = "Some"

----------------------------------------------------------------------------
(* GridIterator, Board::count_pieces.                                      *)

\* GridIterator: the 64 positions in a fixed order, x outer and y inner
GridIterator == [i \in 1 .. (Size * Size) |-> <<(i - 1) \div Size, (i - 1) % Size>>]

\* the scan of the positions number lo to hi of GridIterator, counting the
\* cells of p (the range is halved to keep the evaluation shallow)
RECURSIVE count_from(_, _, _, _)
count_from(cells, p, lo, hi) ==
    IF lo = hi
    THEN IF cells[GridIterator[lo][1]][GridIterator[lo][2]] = p THEN 1 ELSE 0
    ELSE count_from(cells, p, lo, (lo + hi) \div 2)
         + count_from(cells, p, ((lo + hi) \div 2) + 1, hi)

\* Board::count_pieces : (black, white), by a scan of the 64 cells
count_pieces(cells) ==
    <<count_from(cells, "Black", 1, Len(GridIterator)),
      count_from(cells, "White", 1, Len(GridIterator))>>

----------------------------------------------------------------------------
(* GameStatus.                                                             *)

\* GameStatus::can_player_move : the first playable position ends the scan
can_player_move(cells, p) ==
    \E i \in 1 .. Len(GridIterator) :
        is_some(cells, p, GridIterator[i][1], GridIterator[i][2])

\* evaluate_board with the test of a full board inverted
evaluate_board_inverted(cells) ==
    LET c == count_pieces(cells)
        probe == (c[1] + c[2]) = 64
    IN  [black_can_move |-> probe /\ can_player_move(cells, "Black"),
         white_can_move |-> probe /\ can_player_move(cells, "White"),
         black_pieces |-> c[1],
         white_pieces |-> c[2]]

\* GameStatus::evaluate_board
evaluate_board(cells) ==
    LET c == count_pieces(cells)
        probe == (c[1] + c[2]) # 64
    IN  [black_can_move |-> probe /\ can_player_move(cells, "Black"),
         white_can_move |-> probe /\ can_player_move(cells, "White"),
         black_pieces |-> c[1],
         white_pieces |-> c[2]]

game_over(st) == ~st.black_can_move /\ ~st.white_can_move

\* winner with the comparison of the counts the wrong way round
winner_fewer(st) ==
    IF ~game_over(st) \/ st.black_pieces = st.white_pieces
    THEN "None"
    ELSE IF st.black_pieces < st.white_pieces THEN "Black" ELSE "White"

winner(st) ==
    IF ~game_over(st) \/ st.black_pieces = st.white_pieces
    THEN "None"
    ELSE IF st.black_pieces > st.white_pieces THEN "Black" ELSE "White"

----------------------------------------------------------------------------
(* Game.                                                                   *)

Game_new ==
    [board |-> Board_new_start,
     player |-> "Black",
     status |-> evaluate_board(Board_new_start)]

\* Game::update_status
update_status(g) == [g EXCEPT !.status = evaluate_board(g.board)]

\* Game::play checking the turn after the move was tried on the board
Game_play_turn_last(g, p, x, y) ==
    IF g.player = "None"
    THEN [game |-> g, ret |-> "GameOver"]
    ELSE LET r == play(g.board, p, x, y)
             g1 == [g EXCEPT !.board = r.self]
         IN  IF r.ret.tag = "Err"
             THEN [game |-> g1, ret |-> "OutOfRange"]
             ELSE IF g.player # p
             THEN [game |-> g, ret |-> "WrongTurn"]
             ELSE IF r.ret.tag = "Some"
             THEN [game |-> update_status([g1 EXCEPT !.board = r.ret.board]),
                   ret |-> "Ok"]
             ELSE [game |-> g1, ret |-> "InvalidMove"]

\* Game::play putting the piece on an empty cell before the move is found
\* invalid
Game_play_piece_first(g, p, x, y) ==
    IF g.player = "None"
    THEN [game |-> g, ret |-> "GameOver"]
    ELSE IF g.player # p
    THEN [game |-> g, ret |-> "WrongTurn"]
    ELSE LET r == play(g.board, p, x, y)
             g1 == [g EXCEPT !.board = r.self]
         IN  IF r.ret.tag = "Err"
             THEN [game |-> g1, ret |-> "OutOfRange"]
             ELSE IF r.ret.tag = "Some"
             THEN [game |-> update_status([g1 EXCEPT !.board = r.ret.board]),
                   ret |-> "Ok"]
             ELSE [game |-> IF g1.board[x][y] = "None"
                            THEN [g1 EXCEPT !.board[x][y] = p]
                            ELSE g1,
                   ret |-> "InvalidMove"]

\* Game::play without the call of update_status
Game_play_stale_status(g, p, x, y) ==
    IF g.player = "None"
    THEN [game |-> g, ret |-> "GameOver"]
    ELSE IF g.player # p
    THEN [game |-> g, ret |-> "WrongTurn"]
    ELSE LET r == play(g.board, p, x, y)
             g1 == [g EXCEPT !.board = r.self]
         IN  IF r.ret.tag = "Err"
             THEN [game |-> g1, ret |-> "OutOfRange"]
             ELSE IF r.ret.tag = "Some"
             THEN [game |-> [g1 EXCEPT !.board = r.ret.board], ret |-> "Ok"]
             ELSE [game |-> g1, ret |-> "InvalidMove"]

\* Game::play handing the turn to the opponent after an accepted move
Game_play_next_turn(g, p, x, y) ==
    IF g.player = "None"
    THEN [game |-> g, ret |-> "GameOver"]
    ELSE IF g.player # p
    THEN [game |-> g, ret |-> "WrongTurn"]
    ELSE LET r == play(g.board, p, x, y)
             g1 == [g EXCEPT !.board = r.self]
         IN  IF r.ret.tag = "Err"
             THEN [game |-> g1, ret |-> "OutOfRange"]
             ELSE IF r.ret.tag = "Some"
             THEN [game |-> update_status([g1 EXCEPT !.board = r.ret.board,
                                                     !.player = opponent(p)]),
                   ret |-> "Ok"]
             ELSE [game |-> g1, ret |-> "InvalidMove"]

\* Game::play accepting a move without taking the board it gives
Game_play_drops_result(g, p, x, y) ==
    IF g.player = "None"
    THEN [game |-> g, ret |-> "GameOver"]
    ELSE IF g.player # p
    THEN [game |-> g, ret |-> "WrongTurn"]
    ELSE LET r == play(g.board, p, x, y)
             g1 == [g EXCEPT !.board = r.self]
         IN  IF r.ret.tag = "Err"
             THEN [game |-> g1, ret |-> "OutOfRange"]
             ELSE IF r.ret.tag = "Some"
             THEN [game |-> update_status(g1), ret |-> "Ok"]
             ELSE [game |-> g1, ret |-> "InvalidMove"]

\* Game::play : the game after the call and the result of the call
Game_play(g, p, x, y) ==
    IF g.player = "None"
    THEN [game |-> g, ret |-> "GameOver"]
    ELSE IF g.player # p
    THEN [game |-> g, ret |-> "WrongTurn"]
    ELSE LET r == play(g.board, p, x, y)
             g1 == [g EXCEPT !.board = r.self]
         IN  IF r.ret.tag = "Err"
             THEN [game |-> g1, ret |-> "OutOfRange"]
             ELSE IF r.ret.tag = "Some"
             THEN [game |-> update_status([g1 EXCEPT !.board = r.ret.board]),
                   ret |-> "Ok"]
             ELSE [game |-> g1, ret |-> "InvalidMove"]

----------------------------------------------------------------------------
(* Evaluator.                                                              *)

SCORE_MAX == 2147483647
SCORE_DRAW == 0
SCORE_OPPONENT_BLOCKED == 4
SCORE_INSIDE == 1
SCORE_BORDER == 4
SCORE_CORNER == 8

\* i32 negation; no count the evaluator negates is i32::MIN
sign_for_player(p, count) == IF p = "Black" THEN count ELSE 0 - count

corner(x, y) == (x = 0 \/ x = 7) /\ (y = 0 \/ y = 7)

border(x, y) == x = 0 \/ x = 7 \/ y = 0 \/ y = 7

\* GameStatus::can_player_move(&self, player), the stored mobility flag
status_can_player_move(st, p) ==
    IF p = "Black" THEN st.black_can_move ELSE st.white_can_move

\* the loop of Evaluator::evaluate over Board::iter (lines 147-159):
\* corner + border + other
RECURSIVE positional(_, _, _)
positional(cells, lo, hi) ==
    IF lo = hi
    THEN LET x == GridIterator[lo][1]
             y == GridIterator[lo][2]
             piece == cells[x][y]
         IN  IF piece = "None" THEN 0
             ELSE IF corner(x, y) THEN sign_for_player(piece, SCORE_CORNER)
             ELSE IF border(x, y) THEN sign_for_player(piece, SCORE_BORDER)
             ELSE sign_for_player(piece, SCORE_INSIDE)
    ELSE positional(cells, lo, (lo + hi) \div 2)
         + positional(cells, ((lo + hi) \div 2) + 1, hi)

\* evaluate_with giving the bonus when the last player itself is blocked
evaluate_with_blocked_self(cells, last_player, st) ==
    IF game_over(st)
    THEN IF winner(st) # "None"
         THEN sign_for_player(winner(st), SCORE_MAX)
         ELSE SCORE_DRAW
    ELSE positional(cells, 1, Len(GridIterator))
         + (IF ~status_can_player_move(st, last_player)
            THEN sign_for_player(last_player, SCORE_OPPONENT_BLOCKED)
            ELSE 0)

evaluate_with(cells, last_player, st) ==
    IF game_over(st)
    THEN IF winner(st) # "None"
         THEN sign_for_player(winner(st), SCORE_MAX)
         ELSE SCORE_DRAW
    ELSE positional(cells, 1, Len(GridIterator))
         + (IF ~status_can_player_move(st, opponent(last_player))
            THEN sign_for_player(last_player, SCORE_OPPONENT_BLOCKED)
            ELSE 0)

\* Evaluator::evaluate
evaluate(cells, last_player) ==
    evaluate_with(cells, last_player, evaluate_board(cells))

----------------------------------------------------------------------------
(* Minimax.                                                                *)

\* Option<BestMove>; "Panic" stands for an unwrap or expect that failed
NoMove == [tag |-> "None"]
Panic == [tag |-> "Panic"]
BestMove(x, y, evaluation) ==
    [tag |-> "Some", x |-> x, y |-> y, evaluation |-> evaluation]

\* best_move_for_player keeping move_a on an equal score
best_move_keeps_first(current_player, move_a, move_b) ==
    IF move_a.tag = "None" THEN move_b
    ELSE IF move_b.tag = "None" THEN move_a
    ELSE IF sign_for_player(current_player, move_a.evaluation)
            >= sign_for_player(current_player, move_b.evaluation)
         THEN move_a
         ELSE move_b

\* Minimax::best_move_for_player
best_move_for_player(current_player, move_a, move_b) ==
    IF move_a.tag = "None" THEN move_b
    ELSE IF move_b.tag = "None" THEN move_a
    ELSE IF sign_for_player(current_player, move_a.evaluation)
            > sign_for_player(current_player, move_b.evaluation)
         THEN move_a
         ELSE move_b

\* from_inner handing up the best move of the recursive search as it is,
\* with the coordinates of the deeper move
from_inner_deeper(x, y, inner_best_move) ==
    IF inner_best_move.tag = "Some"
    THEN BestMove(inner_best_move.x, inner_best_move.y, inner_best_move.evaluation)
    ELSE Panic

\* what the closure of inner_compute_move builds from the best move of the
\* recursive search (lines 65-77): the root coordinates with its evaluation
from_inner(x, y, inner_best_move) ==
    IF inner_best_move.tag = "Some"
    THEN BestMove(x, y, inner_best_move.evaluation)
    ELSE Panic

\* the candidate of a search that never looks deeper than the move itself
candidate_static(self_depth, current_player, depth, x, y, board_after_move) ==
    BestMove(x, y, evaluate(board_after_move, current_player))

RECURSIVE inner_compute_move(_, _, _, _)
RECURSIVE fold(_, _, _, _, _, _, _)

\* the candidate of a search that hands the turn to the opponent whether or
\* not it can move
candidate_no_skip(self_depth, current_player, depth, x, y, board_after_move) ==
    IF depth = self_depth
    THEN BestMove(x, y, evaluate(board_after_move, current_player))
    ELSE from_inner(x, y, inner_compute_move(self_depth, board_after_move,
                                              opponent(current_player), depth + 1))

\* the candidate of a valid move (x, y), board_after_move being its result
\* (lines 36-77)
candidate(self_depth, current_player, depth, x, y, board_after_move) ==
    IF depth = self_depth
    THEN BestMove(x, y, evaluate(board_after_move, current_player))
    ELSE IF can_player_move(board_after_move, opponent(current_player))
    THEN from_inner(x, y, inner_compute_move(self_depth, board_after_move,
                                              opponent(current_player), depth + 1))
    ELSE IF can_player_move(board_after_move, current_player)
    THEN from_inner(x, y, inner_compute_move(self_depth, board_after_move,
                                              current_player, depth + 1))
    ELSE BestMove(x, y, evaluate(board_after_move, current_player))

\* one call of the closure folded over GridIterator (lines 29-82)
step(self_depth, cells, current_player, depth, best_move, x, y, r) ==
    IF r.tag = "Err" THEN Panic
    ELSE IF r.tag = "Some"
    THEN LET c == candidate(self_depth, current_player, depth, x, y, r.board) IN
         IF c.tag = "Panic" THEN Panic
         ELSE best_move_for_player(current_player, best_move, c)
    ELSE best_move

\* the fold over the positions number lo to hi of GridIterator, in that
\* order, from the accumulator best_move (the range is halved to keep the
\* evaluation shallow); a panic ends it
fold(self_depth, cells, current_player, depth, lo, hi, best_move) ==
    IF best_move.tag = "Panic"
    THEN best_move
    ELSE IF lo = hi
    THEN step(self_depth, cells, current_player, depth, best_move,
              GridIterator[lo][1], GridIterator[lo][2],
              play(cells, current_player,
                   GridIterator[lo][1], GridIterator[lo][2]).ret)
    ELSE fold(self_depth, cells, current_player, depth,
              ((lo + hi) \div 2) + 1, hi,
              fold(self_depth, cells, current_player, depth,
                   lo, (lo + hi) \div 2, best_move))

\* Minimax::inner_compute_move, self_depth being self.depth
inner_compute_move(self_depth, cells, current_player, depth) ==
    fold(self_depth, cells, current_player, depth, 1, Len(GridIterator), NoMove)

\* Minimax::compute_move
compute_move(self_depth, cells, me) ==
    LET best_move == inner_compute_move(self_depth, cells, me, 1) IN
    IF best_move.tag = "Some"
    THEN [tag |-> "Some", x |-> best_move.x, y |-> best_move.y]
    ELSE best_move

----------------------------------------------------------------------------
(* Boards the sources build.                                               *)

\* board.rs, play_execute_move_capuring_pieces_in_all_directions
ring_board ==
    [x \in Coord |-> [y \in Coord |->
        IF x > 4 \/ y > 4 THEN "None"
        ELSE IF x = 0 \/ x = 4 \/ y = 0 \/ y = 4 THEN "Black"
        ELSE IF x # 2 \/ y # 2 THEN "White"
        ELSE "None"]]

\* game.rs, no_winner_if_pieces_counts_are_equals
board_50_50 ==
    [x \in Coord |-> [y \in Coord |-> IF x % 2 = 0 THEN "Black" ELSE "White"]]

\* game.rs, winner_if_no_one_can_move_and_one_has_more_pieces
unicolor_board == [x \in Coord |-> [y \in Coord |-> "Black"]]

\* game.rs, game_over_if_none_of_the_players_can_move
corners_board ==
    set_piece(set_piece(Board_new, 0, 0, "Black"), 7, 7, "White")

\* virtual_player.rs, minimax_find_the_best_move
best_move_board ==
    LET b1 == set_piece(Board_new, 2, 2, "White")
        b2 == set_piece(b1, 3, 2, "Black")
        b3 == set_piece(b2, 2, 3, "White")
        b4 == set_piece(b3, 3, 3, "Black")
    IN  set_piece(b4, 4, 3, "Black")

\* virtual_player.rs, evaluate_returns_negative_score_if_white_is_stronger
white_stronger_board == set_piece(Board_new_start, 3, 4, "White")

\* a board built with Board::new and set_piece on which Black, by playing
\* (2,0), leaves White without a move and can itself play (7,5)
skip_board ==
    LET b1 == set_piece(Board_new, 0, 0, "Black")
        b2 == set_piece(b1, 1, 0, "White")
        b3 == set_piece(b2, 7, 7, "Black")
    IN  set_piece(b3, 7, 6, "White")

InitBoards ==
    {Board_new, Board_new_start, ring_board, board_50_50, unicolor_board,
     corners_board, best_move_board, white_stronger_board, skip_board}

----------------------------------------------------------------------------
(* The Game object (Spec) and the caller of the Board API (SpecBoard).     *)

NoCall == [op |-> "none"]

\* coordinates given to a call: in range, or just out of range
Args == 0 .. Size

Init ==
    /\ board = Game_new.board
    /\ player = Game_new.player
    /\ status = Game_new.status
    /\ position = Board_new_start
    /\ call = NoCall
    /\ moves = 0

InitBoard ==
    /\ board = Game_new.board
    /\ player = Game_new.player
    /\ status = Game_new.status
    /\ position \in InitBoards
    /\ call = NoCall
    /\ moves = 0

\* Game.play(p, x, y); moves counts the calls that succeeded
GamePlay(p, x, y) ==
    /\ call = NoCall
    /\ \E r \in {Game_play([board |-> board, player |-> player, status |-> status],
                           p, x, y)} :
        /\ board' = r.game.board
        /\ player' = r.game.player
        /\ status' = r.game.status
        /\ call' = [op |-> "Game.play", player |-> p, x |-> x, y |-> y,
                    ret |-> r.ret]
        /\ moves' = IF r.ret = "Ok" THEN moves + 1 ELSE moves
    /\ UNCHANGED position

\* the caller is done with the result of its last call
Return ==
    /\ call # NoCall
    /\ call' = NoCall
    /\ UNCHANGED <<board, player, status, position, moves>>

\* position.play(p, x, y), as a first call or as the same call made again
BoardPlay(p, x, y) ==
    /\ \/ call = NoCall
       \/ /\ call.op = "Board.play"
          /\ call.player = p /\ call.x = x /\ call.y = y
    /\ \E r \in {play(position, p, x, y)} :
        /\ position' = r.self
        /\ call' = [op |-> "Board.play", player |-> p, x |-> x, y |-> y,
                    ret |-> r.ret]
    /\ UNCHANGED <<board, player, status, moves>>

\* let board = board.play(..).unwrap().unwrap() : the caller goes on with
\* the board a play returned
Adopt ==
    /\ call.op = "Board.play"
    /\ call.ret.tag = "Some"
    /\ moves < MaxMoves
    /\ position' = call.ret.board
    /\ moves' = moves + 1
    /\ call' = NoCall
    /\ UNCHANGED <<board, player, status>>

\* GameStatus::evaluate_board(&position)
EvaluateBoard ==
    /\ call = NoCall
    /\ call' = [op |-> "evaluate_board", ret |-> evaluate_board(position)]
    /\ UNCHANGED <<board, player, status, position, moves>>

\* Evaluator::evaluate(&position, last_player)
Evaluate(last_player) ==
    /\ call = NoCall
    /\ call' = [op |-> "evaluate", player |-> last_player,
                ret |-> evaluate(position, last_player)]
    /\ UNCHANGED <<board, player, status, position, moves>>

\* Minimax::new(depth).compute_move(&position, me)
ComputeMove(depth, me) ==
    /\ call = NoCall
    /\ moves <= MaxSearchMoves
    /\ call' = [op |-> "compute_move", player |-> me, depth |-> depth,
                ret |-> compute_move(depth, position, me)]
    /\ UNCHANGED <<board, player, status, position, moves>>

Next ==
    \/ \E p \in Players, x \in Args, y \in Args : GamePlay(p, x, y)
    \/ Return

NextBoard ==
    \/ \E p \in Players, x \in Args, y \in Args : BoardPlay(p, x, y)
    \/ Adopt
    \/ Return
    \/ EvaluateBoard
    \/ \E last_player \in Players : Evaluate(last_player)
    \/ \E depth \in 1 .. MaxDepth, me \in Players : ComputeMove(depth, me)

\* a caller of both: moves on the boards of InitBoards and a game
NextPlay ==
    \/ \E p \in Players, x \in Args, y \in Args : BoardPlay(p, x, y)
    \/ \E p \in Players, x \in Args, y \in Args : GamePlay(p, x, y)
    \/ Return

\* a player that searches the boards of InitBoards and tries moves on them
NextSearch ==
    \/ \E depth \in 1 .. MaxDepth, me \in Players : ComputeMove(depth, me)
    \/ \E p \in Players, x \in Args, y \in Args : BoardPlay(p, x, y)
    \/ Return

Spec == Init /\ [][Next]_vars

SpecPlay == InitBoard /\ [][NextPlay]_vars

SpecSearch == InitBoard /\ [][NextSearch]_vars

SpecBoard == InitBoard /\ [][NextBoard]_vars

----------------------------------------------------------------------------
(* What the claims are stated with: capture stated over the cells of the   *)
(* board, without the navigation of Board::play.                           *)

InRange(x, y) == x \in Coord /\ y \in Coord

Dirs == {d \in {-1, 0, 1} \X {-1, 0, 1} : d # <<0, 0>>}

\* the cell j steps from (x, y) in direction d is on the board
OnBoard(x, y, d, j) == InRange(x + j * d[1], y + j * d[2])

CellAt(cells, x, y, d, j) == cells[x + j * d[1]][y + j * d[2]]

\* from (x, y) in direction d: k >= 1 cells of the other player, then a
\* cell of p
Sandwich(cells, p, x, y, d, k) ==
    /\ OnBoard(x, y, d, k + 1)
    /\ \A j \in 1 .. k : CellAt(cells, x, y, d, j) \notin {"None", p}
    /\ CellAt(cells, x, y, d, k + 1) = p

Capturable(cells, p, x, y, d) ==
    \E k \in 1 .. (Size - 2) : Sandwich(cells, p, x, y, d, k)

Legal(cells, p, x, y) ==
    /\ cells[x][y] = "None"
    /\ \E d \in Dirs : Capturable(cells, p, x, y, d)

\* (cx, cy) is one of the cells the move of p at (x, y) captures
Captured(cells, p, x, y, cx, cy) ==
    \E d \in Dirs : \E k \in 1 .. (Size - 2) :
        /\ Sandwich(cells, p, x, y, d, k)
        /\ \E j \in 1 .. k : cx = x + j * d[1] /\ cy = y + j * d[2]

\* a direction that starts with a piece of the other player and captures
\* nothing
Blocked(cells, p, x, y, d) ==
    /\ OnBoard(x, y, d, 1)
    /\ CellAt(cells, x, y, d, 1) \notin {"None", p}
    /\ ~Capturable(cells, p, x, y, d)

Cells == Coord \X Coord

Pieces(cells, p) == Cardinality({c \in Cells : cells[c[1]][c[2]] = p})

NoOneCanMove(cells) ==
    \A p \in Players : \A c \in Cells : ~is_some(cells, p, c[1], c[2])

----------------------------------------------------------------------------
(* The claims.                                                             *)

\* C1: for an in-range target Board.play returns Ok(Some) exactly when the
\* target is empty and some direction holds one or more opponent cells
\* followed by an own cell; otherwise it returns Ok(None), never an error.
C1_PlayIsSomeIffLegal ==
    (call.op = "Board.play" /\ InRange(call.x, call.y)) =>
        /\ call.ret.tag \in {"Some", "None"}
        /\ (call.ret.tag = "Some")
               <=> Legal(position, call.player, call.x, call.y)

\* a move accepted although one of its directions runs over opponent
\* pieces to an empty cell or to the edge
C1_Witness ==
    /\ call.op = "Board.play"
    /\ call.ret.tag = "Some"
    /\ \E d \in Dirs : Blocked(position, call.player, call.x, call.y, d)

\* C2: the board Board.play returns is the input board with the target and
\* the captured cells of every capturable direction set to the player,
\* and every other cell as it was.
C2_PlayResultCells ==
    (call.op = "Board.play" /\ call.ret.tag = "Some") =>
        \A c \in Cells :
            call.ret.board[c[1]][c[2]] =
                IF c = <<call.x, call.y>>
                    \/ Captured(position, call.player, call.x, call.y, c[1], c[2])
                THEN call.player
                ELSE position[c[1]][c[2]]

\* a move that captures two or more pieces in one direction and leaves the
\* opponent pieces of another direction in place
C2_Witness ==
    /\ call.op = "Board.play"
    /\ call.ret.tag = "Some"
    /\ \E d \in Dirs : \E k \in 2 .. (Size - 2) :
           Sandwich(position, call.player, call.x, call.y, d, k)
    /\ \E d \in Dirs : Blocked(position, call.player, call.x, call.y, d)

\* C3: Board.play leaves the board it is called on as it was, and the same
\* call made again returns the same result.
C3_PlayLeavesReceiver ==
    [][call'.op = "Board.play" =>
          /\ position' = position
          /\ call.op = "Board.play" => call'.ret = call.ret]_vars

\* a move was accepted and its target is still empty on the receiver
C3_Witness ==
    /\ call.op = "Board.play"
    /\ call.ret.tag = "Some"
    /\ position[call.x][call.y] = "None"

\* C4: the status of a board is game over exactly when Board.play returns
\* Some for no player and no cell; it is game over for every full board.
C4_GameOverIffNoMove ==
    call.op = "evaluate_board" =>
        /\ game_over(call.ret) <=> NoOneCanMove(position)
        /\ (Pieces(position, "None") = 0) => game_over(call.ret)

\* the status of a full board
C4_Witness ==
    /\ call.op = "evaluate_board"
    /\ Pieces(position, "None") = 0
    /\ game_over(call.ret)

\* C5: winner() is None when the game is not over or the counts are equal,
\* and otherwise the player with more pieces.
C5_Winner ==
    call.op = "evaluate_board" =>
        winner(call.ret) =
            IF ~NoOneCanMove(position)
                \/ Pieces(position, "Black") = Pieces(position, "White")
            THEN "None"
            ELSE IF Pieces(position, "Black") > Pieces(position, "White")
                 THEN "Black"
                 ELSE "White"

\* a board that is not full on which no one can move, won by White
C5_Witness ==
    /\ call.op = "evaluate_board"
    /\ Pieces(position, "None") > 0
    /\ winner(call.ret) = "White"

\* C6: once no player can move, Game.play fails with the game-over error.
C6_GameOverError ==
    [][(call'.op = "Game.play" /\ game_over(status))
           => call'.ret = "GameOver"]_vars

\* C7: Game.play by a player other than the one whose turn it is fails
\* with the wrong-turn error and changes nothing, whatever the coordinates.
C7_WrongTurn ==
    [][(call'.op = "Game.play" /\ player # "None" /\ call'.player # player)
           => /\ call'.ret = "WrongTurn"
              /\ UNCHANGED <<board, player, status>>]_vars

\* the wrong player called with coordinates out of range
C7_Witness ==
    /\ call.op = "Game.play"
    /\ call.ret = "WrongTurn"
    /\ ~InRange(call.x, call.y)

\* C8: Game.play by the player whose turn it is, on in-range coordinates
\* for which Board.play returns Ok(None), fails with the invalid-move error
\* and changes nothing.
C8_InvalidMove ==
    [][(/\ call'.op = "Game.play"
        /\ call'.player = player
        /\ InRange(call'.x, call'.y)
        /\ play(board, call'.player, call'.x, call'.y).ret.tag = "None")
           => /\ call'.ret = "InvalidMove"
              /\ UNCHANGED <<board, player, status>>]_vars

\* an invalid move on an empty cell, after a move was accepted
C8_Witness ==
    /\ call.op = "Game.play"
    /\ call.ret = "InvalidMove"
    /\ board[call.x][call.y] = "None"
    /\ board # Board_new_start

\* C9: the stored status is the status of the stored board: its counts are
\* the numbers of Black and White cells, (2, 2) for a fresh game, and its
\* game_over and winner are those evaluate_board gives for the board.
C9_StatusOfBoard ==
    /\ status.black_pieces = Pieces(board, "Black")
    /\ status.white_pieces = Pieces(board, "White")
    /\ board = Board_new_start
           => <<status.black_pieces, status.white_pieces>> = <<2, 2>>
    /\ game_over(status) = game_over(evaluate_board(board))
    /\ winner(status) = winner(evaluate_board(board))

\* an accepted move that ended the game
C9_Witness ==
    /\ call.op = "Game.play"
    /\ call.ret = "Ok"
    /\ game_over(status)

\* C10: compute_move returns None exactly when the player has no legal
\* move, and the coordinates it returns are those of a move Board.play
\* accepts on the board given.
C10_ComputeMoveIsRootMove ==
    call.op = "compute_move" =>
        /\ call.ret.tag \in {"Some", "None"}
        /\ (call.ret.tag = "None")
               <=> \A c \in Cells : ~is_some(position, call.player, c[1], c[2])
        /\ call.ret.tag = "Some"
               => is_some(position, call.player, call.ret.x, call.ret.y)

\* a move found by a search two plies deep
C10_Witness ==
    /\ call.op = "compute_move"
    /\ call.depth >= 2
    /\ call.ret.tag = "Some"

----------------------------------------------------------------------------
(* The search, as the claims state it.                                     *)

\* sign(p) * v, Black positive and White negative
Favour(p, v) == IF p = "Black" THEN v ELSE 0 - v

\* the numbers, in the enumeration order, of the positions p can play
MoveNumbers(cells, p) ==
    {i \in 1 .. Len(GridIterator) :
        is_some(cells, p, GridIterator[i][1], GridIterator[i][2])}

\* the board after p plays the position number i
After(cells, p, i) ==
    play(cells, p, GridIterator[i][1], GridIterator[i][2]).ret.board

\* the evaluation of the candidate the root node of a search of depth
\* self_depth builds for each move of me
RootEvaluations(self_depth, cells, me) ==
    [i \in MoveNumbers(cells, me) |->
        candidate(self_depth, me, 1, GridIterator[i][1], GridIterator[i][2],
                  After(cells, me, i)).evaluation]

\* the moves of a node that no other move of the node beats for p, ev
\* giving the evaluation of each move
MostFavourable(p, ev) ==
    {i \in DOMAIN ev :
        \A j \in DOMAIN ev : Favour(p, ev[j]) <= Favour(p, ev[i])}

FirstOf(S) == CHOOSE i \in S : \A j \in S : i <= j

LastOf(S) == CHOOSE i \in S : \A j \in S : j <= i

\* the search returned the position number i
Returned(i) ==
    /\ call.ret.tag = "Some"
    /\ <<call.ret.x, call.ret.y>> = GridIterator[i]

\* C11, first kept: among the moves of a node with the same, most favourable
\* score the search keeps the first one of the enumeration order.
C11_TieKeepsFirst ==
    (call.op = "compute_move" /\ call.ret.tag = "Some") =>
        Returned(FirstOf(MostFavourable(call.player,
            RootEvaluations(call.depth, position, call.player))))

\* C11, last kept: among the moves of a node with the same, most favourable
\* score the search keeps the last one of the enumeration order; a later
\* candidate replaces the best so far unless that one is strictly more
\* favourable.
C11_TieKeepsLast ==
    (call.op = "compute_move" /\ call.ret.tag = "Some") =>
        Returned(LastOf(MostFavourable(call.player,
            RootEvaluations(call.depth, position, call.player))))

\* a search whose root has two or more most favourable moves
C11_Witness ==
    /\ call.op = "compute_move"
    /\ call.ret.tag = "Some"
    /\ Cardinality(MostFavourable(call.player,
           RootEvaluations(call.depth, position, call.player))) >= 2

\* the most favourable for q of the values S
BestOf(q, S) == CHOOSE v \in S : \A w \in S : Favour(q, w) <= Favour(q, v)

\* the player to move on cells after p moved: the opponent of p if it can
\* move, else p again
NextMover(cells, p) ==
    IF MoveNumbers(cells, opponent(p)) # {} THEN opponent(p) ELSE p

\* the value, in a search of depth D, of the move of p at ply d that gave
\* the board successor
RECURSIVE Value(_, _, _, _)
Value(D, successor, p, d) ==
    IF d = D \/ NoOneCanMove(successor)
    THEN evaluate(successor, p)
    ELSE LET q == NextMover(successor, p) IN
         BestOf(q, {Value(D, After(successor, q, i), q, d + 1) :
                        i \in MoveNumbers(successor, q)})

\* the value of each root move of me
RootValues(D, cells, me) ==
    [i \in MoveNumbers(cells, me) |-> Value(D, After(cells, me, i), me, 1)]

\* C12: the move compute_move returns has the most favourable value for me
\* among the legal root moves, the value of a move being the evaluation of
\* its successor at the last ply or when no one can move, and else the
\* value the next mover chooses one ply deeper; with depth 1 it is (5,3)
\* for White on the board of minimax_find_the_best_move.
C12_ReturnsMostFavourable ==
    (call.op = "compute_move" /\ call.ret.tag = "Some") =>
        /\ \E i \in MostFavourable(call.player,
                 RootValues(call.depth, position, call.player)) : Returned(i)
        /\ (position = best_move_board /\ call.player = "White"
                /\ call.depth = 1)
               => <<call.ret.x, call.ret.y>> = <<5, 3>>

\* a search two plies deep whose root moves have different values, one of
\* them made of the replies of the opponent
C12_Witness ==
    /\ call.op = "compute_move"
    /\ call.depth >= 2
    /\ call.ret.tag = "Some"
    /\ \E i, j \in MoveNumbers(position, call.player) :
           /\ Value(call.depth, After(position, call.player, i), call.player, 1)
                  # Value(call.depth, After(position, call.player, j), call.player, 1)
           /\ NextMover(After(position, call.player, i), call.player)
                  # call.player


\* C14: compute_move ends without a panic: every position it gives to
\* Board.play is in range, and it unwraps the result of a recursive search
\* only for a player that can move on the successor board.
C14_NoPanic ==
    /\ \A i \in 1 .. Len(GridIterator) :
           check_coordinates(GridIterator[i][1], GridIterator[i][2])
    /\ call.op = "compute_move" => call.ret # Panic

\* a search two plies deep with a root move after which the opponent has
\* no move and the player has one: the search goes on with the same player
C14_Witness ==
    /\ call.op = "compute_move"
    /\ call.depth >= 2
    /\ call.ret.tag = "Some"
    /\ \E i \in MoveNumbers(position, call.player) :
           /\ MoveNumbers(After(position, call.player, i),
                          opponent(call.player)) = {}
           /\ MoveNumbers(After(position, call.player, i),
                          call.player) # {}

\* the number of cells of p among the cells S
PiecesIn(cells, p, S) == Cardinality({c \in S : cells[c[1]][c[2]] = p})

Corners == {c \in Cells : c[1] \in {0, 7} /\ c[2] \in {0, 7}}

Borders == {c \in Cells : c[1] \in {0, 7} \/ c[2] \in {0, 7}} \ Corners

Inside == (Cells \ Corners) \ Borders

\* the weights of the cells of p: 8 a corner, 4 another border cell, 1 any
\* other cell
Weights(cells, p) ==
    8 * PiecesIn(cells, p, Corners) + 4 * PiecesIn(cells, p, Borders)
        + PiecesIn(cells, p, Inside)

CanMove(cells, p) == \E c \in Cells : is_some(cells, p, c[1], c[2])

\* C13: Evaluator.evaluate returns, when the game is over on the board,
\* +i32::MAX if Black has more pieces, -i32::MAX if White has and 0 for a
\* draw; otherwise the weights of the Black cells minus those of the White
\* cells, plus 4 signed for the last player exactly when its opponent has no
\* legal move; it returns 0 on the start board.
C13_Evaluate ==
    call.op = "evaluate" =>
        /\ call.ret =
             IF NoOneCanMove(position)
             THEN IF Pieces(position, "Black") > Pieces(position, "White")
                  THEN 2147483647
                  ELSE IF Pieces(position, "White") > Pieces(position, "Black")
                       THEN 0 - 2147483647
                       ELSE 0
             ELSE Weights(position, "Black") - Weights(position, "White")
                  + (IF CanMove(position, opponent(call.player)) THEN 0
                     ELSE Favour(call.player, 4))
        /\ position = Board_new_start => call.ret = 0

\* the evaluation of a board with corner and border pieces on which the
\* game is not over and the opponent of the last player cannot move
C13_Witness ==
    /\ call.op = "evaluate"
    /\ ~NoOneCanMove(position)
    /\ ~CanMove(position, opponent(call.player))
    /\ PiecesIn(position, "Black", Corners) > 0
    /\ PiecesIn(position, "White", Borders) > 0
    /\ call.ret # 0

\* C15: Game.play never reassigns the turn: after Game::new() and any
\* calls of Game.play, accepted or rejected, player() is Black; it does not
\* advance after an accepted move and never becomes None.
C15_TurnStaysBlack ==
    /\ Game_new.player = "Black"
    /\ player = "Black"

\* a move of Black was accepted, White could answer it, and it is still the
\* turn of Black
C15_Witness ==
    /\ call.op = "Game.play"
    /\ call.ret = "Ok"
    /\ status.white_can_move
    /\ player = call.player

\* the cells of the board that hold a piece
Occupied(cells) == {c \in Cells : cells[c[1]][c[2]] # "None"}

\* after is cells with one more piece: no cell emptied, one more occupied,
\* two or more gained by p and one or more lost by its opponent
AddsOnePiece(cells, p, after) ==
    /\ Occupied(cells) \subseteq Occupied(after)
    /\ Cardinality(Occupied(after)) = Cardinality(Occupied(cells)) + 1
    /\ Pieces(after, p) >= Pieces(cells, p) + 2
    /\ Pieces(after, opponent(p)) <= Pieces(cells, opponent(p)) - 1

\* C16: every move Board.play accepts empties no cell, adds exactly one
\* piece, raises the count of the mover by two or more and lowers that of
\* the opponent by one or more; so from Game::new() with 4 pieces, black +
\* white is 4 + the number of accepted calls, never above 64, and no more
\* than 60 calls of Game.play succeed.
C16_OnePiecePerMove ==
    /\ (call.op = "Board.play" /\ call.ret.tag = "Some")
           => AddsOnePiece(position, call.player, call.ret.board)
    /\ status.black_pieces + status.white_pieces = 4 + moves
    /\ status.black_pieces + status.white_pieces <= 64
    /\ moves <= 60

\* after a call of Game.play succeeded, Board.play accepts a move that takes
\* two or more pieces
C16_Witness ==
    /\ moves >= 1
    /\ call.op = "Board.play"
    /\ call.ret.tag = "Some"
    /\ Pieces(call.ret.board, call.player)
           >= Pieces(position, call.player) + 3

============================================================================
